---- MODULE Spec2Model ----
(***************************************************************************)
(* Model of the countries API: the tb_countries table and the crud         *)
(* functions over it (crud.py), the refresh reconciler (utils.py,          *)
(* routes/countries.py), the summary image, and the HTTP handlers.         *)
(*                                                                         *)
(* Strings that the code case-folds, slices or tests for a suffix are      *)
(* sequences of one-character strings, so that lower(), endswith() and     *)
(* slicing are computed.  Python's None is NoneStr for such strings and    *)
(* NoneNum for numbers.                                                    *)
(*                                                                         *)
(* Spec: requests are handled one at a time: a refresh that has fetched    *)
(* its two payloads runs entry by entry (one commit per entry) to its      *)
(* response before the next request starts.  The catalog payload is read   *)
(* as the loop reads it: each iteration draws the next entry, and the      *)
(* payload may end after any entry.                                        *)
(*                                                                         *)
(* SpecBatch: one refresh over a payload fixed when it starts, each entry  *)
(* in two steps, the lookup and the commit.                                *)
(*                                                                         *)
(* SpecRace: two such refreshes on two worker threads, their steps         *)
(* interleaved, over payloads that name the same country.                  *)
(***************************************************************************)
EXTENDS Integers, Sequences, FiniteSets, TLC

VARIABLES
    store,      \* rows of tb_countries
    nextId,     \* next AUTO_INCREMENT value of tb_countries.id
    clock,      \* UTC wall clock: advances with every reading of the time
    image,      \* cache/summary.png: "absent", "png" or "partial"
    pc,         \* "idle", or "upserting" inside refresh_countries' loop
    rates,      \* exchange_data of the refresh in progress
    idx,        \* entries of countries_data the loop has taken so far
    resp,       \* the last HTTP response
    lastUpsert, \* what the last loop iteration of refresh did
    live,       \* case-folded names upserted and not deleted since
    rendered,   \* how rendering went in the last refresh that returned 200
    sess,       \* per worker thread: the refresh it runs and its Session
    race        \* the first pair of overlapping upserts of one name

vars == <<store, nextId, clock, image, pc, rates, idx,
          resp, lastUpsert, live, rendered, sess, race>>

----------------------------------------------------------------------------
(* Bounds of the model *)

MaxClock == 2
MaxCatalog == 2

----------------------------------------------------------------------------
(* Python / SQL values *)

NoneStr == <<"None">>
NoneNum == -1

UpperSeq == <<"A","B","C","D","E","F","G","H","I","J","K","L","M",
              "N","O","P","Q","R","S","T","U","V","W","X","Y","Z">>
LowerSeq == <<"a","b","c","d","e","f","g","h","i","j","k","l","m",
              "n","o","p","q","r","s","t","u","v","w","x","y","z">>

LowerChar(c) ==
    IF \E i \in DOMAIN UpperSeq : UpperSeq[i] = c
    THEN LowerSeq[CHOOSE i \in DOMAIN UpperSeq : UpperSeq[i] = c]
    ELSE c

\* SQL lower(): NULL stays NULL
Lower(s) == IF s = NoneStr THEN NoneStr ELSE [i \in DOMAIN s |-> LowerChar(s[i])]

\* SQL lower(a) = lower(b): a comparison with NULL is never true
LowerEq(a, b) == a # NoneStr /\ b # NoneStr /\ Lower(a) = Lower(b)

\* Python truthiness of an optional string / list and of an optional number
TruthyStr(s) == s # NoneStr /\ s # <<>>
TruthyNum(n) == n # NoneNum /\ n # 0

\* str.endswith and the slice s[:-n]
EndsWith(s, suf) ==
    /\ Len(s) >= Len(suf)
    /\ SubSeq(s, Len(s) - Len(suf) + 1, Len(s)) = suf
DropLast(s, n) == SubSeq(s, 1, Len(s) - n)

----------------------------------------------------------------------------
(* The payloads the two external sources may return *)

NoneTxt == "None"

Ke == <<"K","e">>
KE == <<"K","E">>
Pe == <<"P","e">>
Af == <<"A","f">>
Am == <<"A","m">>
Kes == <<"K","E","S">>
Usd == <<"U","S","D">>
Zwl == <<"Z","W","L">>
Xxx == <<"X","X","X">>

\* An entry of the catalog payload; a key the source omits reads as None
\* through dict.get (currencies: as the empty list).
Entry(n, cap, reg, pop, flag, curs) ==
    [name |-> n, capital |-> cap, region |-> reg, population |-> pop,
     flag |-> flag, currencies |-> curs]

Entries ==
    { Entry(Ke, "Nairobi", Af, 2, "ke.svg", <<Kes>>),
      Entry(KE, NoneTxt, NoneStr, NoneNum, NoneTxt, <<>>),
      Entry(Pe, "Lima", Am, NoneNum, "pe.svg", <<Usd>>),
      Entry(Pe, "Lima", Am, 4, "pe.svg", <<Zwl, Usd>>),
      Entry(Pe, NoneTxt, Am, 4, NoneTxt, <<Xxx, Usd>>),
      Entry(NoneStr, NoneTxt, NoneStr, 4, NoneTxt, <<NoneStr>>) }

\* JSON bodies of the exchange-rate source: "rates" maps a code to a rate
RateTable == [c \in {Kes, Usd, Zwl} |-> CASE c = Kes -> 2 [] c = Usd -> 1 [] OTHER -> 0]
ExchangeBodies == { [result |-> "success", rates |-> RateTable],
                    [result |-> "error"] }

\* What requests.get(url, timeout=15) can do: raise a RequestException
\* ("neterr"), or return a response of some status class.
FetchOutcomes == {"neterr", "2xx", "3xx", "4xx", "5xx"}

\* The outcomes of the two fetches of one refresh, <<catalog, rates>>: one
\* source answers 2xx while the other does anything, or both fail.
FetchPairs ==
    {p \in FetchOutcomes \X FetchOutcomes : p[1] = "2xx" \/ p[2] = "2xx"}
        \cup {<<"5xx", "neterr">>}

\* a status check that raises for server errors alone
RaiseForStatusServerOnly(st) == st = "5xx"

\* Response.raise_for_status(): HTTPError for 400..599 only
RaiseForStatus(st) == st \in {"4xx", "5xx"}

MultiplierLo == 1000
MultiplierHi == 2000
\* random.uniform(1000, 2000)
Multipliers == {MultiplierLo, MultiplierHi}

\* float true division; every operand drawn above divides exactly
TrueDiv(a, b) == a \div b

----------------------------------------------------------------------------
(* crud.py over the table *)

NoRow == [id |-> 0]

\* the lookup without case folding
MatchingCaseSensitive(st, name) == {r \in st : r.name = name}

\* session.query(Country).filter(func.lower(Country.name) == func.lower(name))
Matching(st, name) == {r \in st : LowerEq(r.name, name)}

\* Query.first(): the row of the least id among the matches, or None
First(rows) ==
    IF rows = {} THEN NoRow
    ELSE CHOOSE r \in rows : \A o \in rows : r.id <= o.id

get_country_by_name(st, name) == First(Matching(st, name))

count_countries(st) == Cardinality(st)

\* Country(**country_data) with the id the table assigns
NewRow(id, data) ==
    [id |-> id, name |-> data.name, capital |-> data.capital,
     region |-> data.region, population |-> data.population,
     currency_code |-> data.currency_code,
     exchange_rate |-> data.exchange_rate,
     estimated_gdp |-> data.estimated_gdp, flag_url |-> data.flag_url,
     last_refreshed_at |-> data.last_refreshed_at]

\* the setattr loop over country_data, then last_refreshed_at = utcnow()
UpdatedRow(row, data, utcnow) ==
    [NewRow(row.id, data) EXCEPT !.last_refreshed_at = utcnow]

\* an upsert whose update drops the matched row and never writes it back
create_or_update_country_dropping(st, nid, data, utcnow, commitFails) ==
    LET existing == First(Matching(st, data.name)) IN
    IF existing.id # NoRow.id
    THEN IF commitFails
         THEN [store |-> st, nextId |-> nid, kind |-> "dberror", id |-> 0]
         ELSE [store |-> st \ {existing},
               nextId |-> nid, kind |-> "update", id |-> existing.id]
    ELSE IF commitFails \/ data.name = NoneStr
         THEN [store |-> st, nextId |-> nid, kind |-> "dberror", id |-> 0]
         ELSE [store |-> st \cup {NewRow(nid, data)},
               nextId |-> nid + 1, kind |-> "insert", id |-> nid]

\* create_or_update_country: the table, the id counter and what happened.
\* A commit that raises is rolled back and the exception re-raised.
\* name is NOT NULL: inserting a None name raises IntegrityError.
create_or_update_country(st, nid, data, utcnow, commitFails) ==
    LET existing == First(Matching(st, data.name)) IN
    IF existing.id # NoRow.id
    THEN IF commitFails
         THEN [store |-> st, nextId |-> nid, kind |-> "dberror", id |-> 0]
         ELSE [store |-> (st \ {existing})
                           \cup {UpdatedRow(existing, data, utcnow)},
               nextId |-> nid, kind |-> "update", id |-> existing.id]
    ELSE IF commitFails \/ data.name = NoneStr
         THEN [store |-> st, nextId |-> nid, kind |-> "dberror", id |-> 0]
         ELSE [store |-> st \cup {NewRow(nid, data)},
               nextId |-> nid + 1, kind |-> "insert", id |-> nid]

\* a delete that reports success but whose removal never reaches the table
delete_country_uncommitted(st, name) ==
    [store |-> st, deleted |-> get_country_by_name(st, name).id # NoRow.id]

\* delete_country: the table afterwards and the returned flag
delete_country(st, name) ==
    LET country == get_country_by_name(st, name) IN
    IF country.id # NoRow.id
    THEN [store |-> st \ {country}, deleted |-> TRUE]
    ELSE [store |-> st, deleted |-> FALSE]

----------------------------------------------------------------------------
(* create_or_update_country as two steps of a Session: the lookup reads    *)
(* the table, the commit writes it.  Between the two, another Session may  *)
(* commit.                                                                 *)

\* the unique index on tb_countries.name refuses a second row of the name;
\* MySQL's default collations compare without regard to letter case
UniqueViolation(st, name) == \E r \in st : LowerEq(r.name, name)

\* the UPDATE the unit of work flushes for a loaded row: it sets the columns
\* whose new value differs from the value loaded and leaves the others as
\* the table has them now; last_refreshed_at is assigned a fresh reading
FlushUpdate(cur, loaded, data, utcnow) ==
    [id |-> cur.id,
     name |-> IF data.name # loaded.name THEN data.name ELSE cur.name,
     capital |-> IF data.capital # loaded.capital
                 THEN data.capital ELSE cur.capital,
     region |-> IF data.region # loaded.region
                THEN data.region ELSE cur.region,
     population |-> IF data.population # loaded.population
                    THEN data.population ELSE cur.population,
     currency_code |-> IF data.currency_code # loaded.currency_code
                       THEN data.currency_code ELSE cur.currency_code,
     exchange_rate |-> IF data.exchange_rate # loaded.exchange_rate
                       THEN data.exchange_rate ELSE cur.exchange_rate,
     estimated_gdp |-> IF data.estimated_gdp # loaded.estimated_gdp
                       THEN data.estimated_gdp ELSE cur.estimated_gdp,
     flag_url |-> IF data.flag_url # loaded.flag_url
                  THEN data.flag_url ELSE cur.flag_url,
     last_refreshed_at |-> utcnow]

\* a commit whose failure leaves the written row in the table
commit_upsert_unrolled(st, nid, found, data, utcnow, commitFails) ==
    IF found.id # NoRow.id
    THEN IF ~(\E r \in st : r.id = found.id)
         THEN [store |-> st, nextId |-> nid, kind |-> "dberror", id |-> 0]
         ELSE LET cur == CHOOSE r \in st : r.id = found.id
              IN  [store |-> (st \ {cur})
                               \cup {FlushUpdate(cur, found, data, utcnow)},
                   nextId |-> nid,
                   kind |-> IF commitFails THEN "dberror" ELSE "update",
                   id |-> IF commitFails THEN 0 ELSE cur.id]
    ELSE IF data.name = NoneStr
         THEN [store |-> st, nextId |-> nid, kind |-> "dberror", id |-> 0]
         ELSE IF UniqueViolation(st, data.name)
         THEN [store |-> st, nextId |-> nid + 1, kind |-> "duplicate",
               id |-> 0]
         ELSE [store |-> st \cup {NewRow(nid, data)}, nextId |-> nid + 1,
               kind |-> IF commitFails THEN "dberror" ELSE "insert",
               id |-> IF commitFails THEN 0 ELSE nid]

\* lines 28-48 of create_or_update_country, given what the lookup of lines
\* 24-26 found: session.commit(), and session.rollback() when it raises.
\* "dberror": the commit raised (the connection, NOT NULL on name, a row
\* that is gone); "duplicate": the INSERT hit the unique index, which uses
\* up the AUTO_INCREMENT value it was given.
commit_upsert(st, nid, found, data, utcnow, commitFails) ==
    IF found.id # NoRow.id
    THEN IF commitFails \/ ~(\E r \in st : r.id = found.id)
         THEN [store |-> st, nextId |-> nid, kind |-> "dberror", id |-> 0]
         ELSE LET cur == CHOOSE r \in st : r.id = found.id
              IN  [store |-> (st \ {cur})
                               \cup {FlushUpdate(cur, found, data, utcnow)},
                   nextId |-> nid, kind |-> "update", id |-> cur.id]
    ELSE IF commitFails \/ data.name = NoneStr
         THEN [store |-> st, nextId |-> nid, kind |-> "dberror", id |-> 0]
         ELSE IF UniqueViolation(st, data.name)
         THEN [store |-> st, nextId |-> nid + 1, kind |-> "duplicate",
               id |-> 0]
         ELSE [store |-> st \cup {NewRow(nid, data)},
               nextId |-> nid + 1, kind |-> "insert", id |-> nid]

----------------------------------------------------------------------------
(* utils._process_single_country_data, up to the upsert *)

CurrencyCode(e) ==
    IF Len(e.currencies) > 0 THEN e.currencies[1] ELSE NoneStr

\* the lookup written as exchange_data.get(currency_code, 0)
ExchangeRateDefaultZero(code, rts) ==
    IF code \in DOMAIN rts THEN rts[code] ELSE 0

ExchangeRate(code, rts) ==
    IF code \in DOMAIN rts THEN rts[code] ELSE NoneNum

\* (population * multiplier) / exchange_rate if exchange_rate else 0
\* raises TypeError when the product is taken of a None population
GdpRaises(pop, rate) == TruthyNum(rate) /\ pop = NoneNum

\* the estimate with the rate multiplied in instead of divided out
EstimatedGdpProduct(pop, m, rate) ==
    IF TruthyNum(rate) THEN pop * m * rate ELSE 0

EstimatedGdp(pop, m, rate) ==
    IF TruthyNum(rate) THEN TrueDiv(pop * m, rate) ELSE 0

CountryDict(e, rts, m, now) ==
    LET code == CurrencyCode(e)
        rate == ExchangeRate(code, rts)
    IN  [name |-> e.name, capital |-> e.capital, region |-> e.region,
         population |-> IF TruthyNum(e.population) THEN e.population ELSE 0,
         currency_code |-> code,
         exchange_rate |-> rate,
         estimated_gdp |-> EstimatedGdp(e.population, m, rate),
         flag_url |-> e.flag,
         last_refreshed_at |-> now]

----------------------------------------------------------------------------
(* crud.get_countries and the parsing of ?sort= in routes/countries.py *)

\* the mapped columns of class Country, by attribute name
ColId == <<"i","d">>
ColName == <<"n","a","m","e">>
ColCapital == <<"c","a","p","i","t","a","l">>
ColRegion == <<"r","e","g","i","o","n">>
ColPopulation == <<"p","o","p","u","l","a","t","i","o","n">>
ColCurrencyCode == <<"c","u","r","r","e","n","c","y","_","c","o","d","e">>
ColExchangeRate == <<"e","x","c","h","a","n","g","e","_","r","a","t","e">>
ColEstimatedGdp == <<"e","s","t","i","m","a","t","e","d","_","g","d","p">>
ColFlagUrl == <<"f","l","a","g","_","u","r","l">>
ColLastRefreshedAt == <<"l","a","s","t","_","r","e","f","r","e","s","h","e","d","_","a","t">>

ColumnAttrs == {ColId, ColName, ColCapital, ColRegion, ColPopulation,
                ColCurrencyCode, ColExchangeRate, ColEstimatedGdp,
                ColFlagUrl, ColLastRefreshedAt}

\* attributes of the declarative class that are not columns
AttrMetadata == <<"m","e","t","a","d","a","t","a">>
AttrRegistry == <<"r","e","g","i","s","t","r","y">>
AttrTablename == <<"_","_","t","a","b","l","e","n","a","m","e","_","_">>
OtherAttrs == {AttrMetadata, AttrRegistry, AttrTablename}

\* hasattr(Country, sort_by)
HasAttr(a) == a \in ColumnAttrs \cup OtherAttrs

\* getattr(Country, sort_by).asc() / .desc() exists on column attributes only
HasOrdering(a) == a \in ColumnAttrs

\* the value ORDER BY compares; NULL sorts lowest, as NoneNum does.
\* Only the numeric columns are drawn as sort fields.
SortKey(r, a) ==
    CASE a = ColId -> r.id
      [] a = ColPopulation -> r.population
      [] a = ColExchangeRate -> r.exchange_rate
      [] a = ColEstimatedGdp -> r.estimated_gdp
      [] a = ColLastRefreshedAt -> r.last_refreshed_at

\* rows in primary-key order: what a query without ORDER BY returns
RECURSIVE ById(_)
ById(rows) ==
    IF rows = {} THEN <<>>
    ELSE LET r == CHOOSE x \in rows : \A o \in rows : x.id <= o.id
         IN  <<r>> \o ById(rows \ {r})

\* ORDER BY col ASC | DESC; rows of equal key stay in primary-key order
ComesFirst(x, o, a, order) ==
    IF SortKey(x, a) = SortKey(o, a) THEN x.id <= o.id
    ELSE IF order = "asc" THEN SortKey(x, a) < SortKey(o, a)
         ELSE SortKey(x, a) > SortKey(o, a)

RECURSIVE OrderBy(_, _, _)
OrderBy(rows, a, order) ==
    IF rows = {} THEN <<>>
    ELSE LET r == CHOOSE x \in rows : \A o \in rows : ComesFirst(x, o, a, order)
         IN  <<r>> \o OrderBy(rows \ {r}, a, order)

\* get_countries: the rows returned, or the exception raised
get_countries(st, region, currency_code, sort_by, sort_order) ==
    LET byRegion == IF TruthyStr(region)
                    THEN {r \in st : LowerEq(r.region, region)} ELSE st
        rows == IF TruthyStr(currency_code)
                THEN {r \in byRegion : LowerEq(r.currency_code, currency_code)}
                ELSE byRegion
    IN  IF TruthyStr(sort_by) /\ HasAttr(sort_by)
        THEN IF HasOrdering(sort_by)
             THEN [raised |-> "none", rows |-> OrderBy(rows, sort_by, sort_order)]
             ELSE [raised |-> "AttributeError", rows |-> <<>>]
        ELSE [raised |-> "none", rows |-> ById(rows)]

SufDesc == <<"_","d","e","s","c">>
SufAsc == <<"_","a","s","c">>

\* list_countries' reading of ?sort=: sort_by, sort_order, or invalid
ParseSort(sort) ==
    IF ~TruthyStr(sort)
    THEN [valid |-> TRUE, sort_by |-> NoneStr, sort_order |-> "asc"]
    ELSE IF EndsWith(sort, SufDesc)
    THEN [valid |-> TRUE, sort_by |-> DropLast(sort, 5), sort_order |-> "desc"]
    ELSE IF EndsWith(sort, SufAsc)
    THEN [valid |-> TRUE, sort_by |-> DropLast(sort, 4), sort_order |-> "asc"]
    ELSE [valid |-> FALSE, sort_by |-> NoneStr, sort_order |-> "asc"]

\* the list handler: status, error and rows of the response
list_countries(st, region, currency, sort) ==
    LET p == ParseSort(sort) IN
    IF ~p.valid
    THEN [status |-> 400, error |-> "Validation failed", rows |-> <<>>]
    ELSE LET got == get_countries(st, region, currency, p.sort_by, p.sort_order)
         IN  IF got.raised # "none"
             THEN [status |-> 500, error |-> "Internal server error", rows |-> <<>>]
             ELSE [status |-> 200, error |-> "", rows |-> got.rows]

\* the query strings drawn for GET /countries: <<region, currency, sort>>
ListQueries ==
    { <<NoneStr, NoneStr, NoneStr>>,
      <<<<"a","f">>, NoneStr, NoneStr>>,
      <<NoneStr, <<"k","e","s">>, NoneStr>>,
      <<NoneStr, NoneStr, <<"p","o","p","u","l","a","t","i","o","n","_","d","e","s","c">>>>,
      <<NoneStr, NoneStr, <<"p","o","p","u","l","a","t","i","o","n","_","a","s","c">>>>,
      <<NoneStr, NoneStr, <<"e","x","c","h","a","n","g","e","_","r","a","t","e","_","a","s","c">>>>,
      <<<<"A","M">>, NoneStr, <<"e","s","t","i","m","a","t","e","d","_","g","d","p","_","d","e","s","c">>>>,
      <<NoneStr, NoneStr, <<"b","o","g","u","s","_","d","e","s","c">>>>,
      <<NoneStr, NoneStr, <<"m","e","t","a","d","a","t","a","_","d","e","s","c">>>>,
      <<NoneStr, NoneStr, <<"_","d","e","s","c">>>>,
      <<NoneStr, NoneStr, <<"p","o","p","u","l","a","t","i","o","n">>>>,
      <<NoneStr, NoneStr, <<>> >> }

----------------------------------------------------------------------------
(* The summary image *)

\* generate_summary_image can raise before it opens the file ("fail_early":
\* makedirs, a query, drawing the text), or inside img.save with the file
\* already opened for writing ("fail_save"), or not at all.
RenderOutcomes == {"ok", "fail_early", "fail_save"}

\* a render that never writes the file it drew
generate_summary_image_unsaved(img, outcome) ==
    IF outcome = "fail_save" THEN "partial" ELSE img

generate_summary_image(img, outcome) ==
    CASE outcome = "ok" -> "png"
      [] outcome = "fail_early" -> img
      [] outcome = "fail_save" -> "partial"

\* get_summary_image: 404 unless the file exists, else the file as it is
get_summary_image(img) ==
    IF img = "absent"
    THEN [status |-> 404, error |-> "Summary image not found", payload |-> ""]
    ELSE [status |-> 200, error |-> "",
          payload |-> IF img = "png" THEN "png" ELSE ""]

----------------------------------------------------------------------------
(* State *)

NoEntry == Entry(NoneStr, NoneTxt, NoneStr, NoneNum, NoneTxt, <<>>)
NoUpsert == [kind |-> "none", id |-> 0, entry |-> NoEntry, table |-> <<>>,
             prev |-> NoneStr]

Response(op, status, msg) ==
    [op |-> op, status |-> status, msg |-> msg, rows |-> <<>>,
     payload |-> "", total |-> 0, fetch |-> <<>>]


\* the worker threads that run the handlers of concurrent requests
Workers == {1, 2}

NoData == [name |-> NoneStr]

\* a worker with no request: pc is "idle", then "loop" (about to take the
\* next entry), "commit" (the lookup is done, the commit is not), and in
\* the end "done" (200) or "failed" (500).  log lists, per entry taken,
\* how its upsert ended.
IdleSession ==
    [pc |-> "idle", catalog |-> <<>>, rates |-> <<>>, idx |-> 0,
     found |-> NoRow, data |-> NoData, status |-> 0, log |-> <<>>]

NoRace == [phase |-> "none", name |-> NoneStr, kinds |-> <<>>,
           last |-> NoData]

Init ==
    /\ store = {}
    /\ nextId = 1
    /\ clock = 0
    /\ image = "absent"
    /\ pc = "idle"
    /\ rates = <<>>
    /\ idx = 0
    /\ resp = Response("none", 0, "")
    /\ lastUpsert = NoUpsert
    /\ live = {}
    /\ rendered = "never"
    /\ sess = [p \in Workers |-> IdleSession]
    /\ race = NoRace

\* The server's local time runs ahead of UTC by TzOffset.
TzOffset == 1

\* datetime.now() and datetime.utcnow()
Now == clock + TzOffset
UtcNow == clock
----------------------------------------------------------------------------
(* POST /countries/refresh *)

\* the try block of refresh_countries: does it raise RequestException?
FetchRaises(c, x) ==
    \/ c = "neterr"
    \/ x = "neterr"
    \/ RaiseForStatus(c)
    \/ RaiseForStatus(x)

\* exchange_response.json().get("rates", {})
RatesOf(body) == IF "rates" \in DOMAIN body THEN body.rates ELSE <<>>

\* the fetch stage fails: 503, nothing else happens
RefreshUnavailable(c, x) ==
    /\ pc = "idle"
    /\ FetchRaises(c, x)
    /\ resp' = [Response("refresh", 503, "External data source unavailable")
                    EXCEPT !.fetch = <<c, x>>]
    /\ lastUpsert' = NoUpsert
    /\ UNCHANGED <<store, nextId, clock, image, pc, rates, idx,
                   live, rendered, sess, race>>

\* both responses are taken as they are, but one body is not JSON:
\* .json() raises outside the try block, the generic handler answers 500
RefreshUndecodable(c, x) ==
    /\ pc = "idle"
    /\ ~FetchRaises(c, x)
    /\ resp' = [Response("refresh", 500, "Internal server error")
                    EXCEPT !.fetch = <<c, x>>]
    /\ lastUpsert' = NoUpsert
    /\ UNCHANGED <<store, nextId, clock, image, pc, rates, idx,
                   live, rendered, sess, race>>

\* both bodies decode: the loop over countries_data starts
RefreshStart(c, x, xbody) ==
    /\ pc = "idle"
    /\ ~FetchRaises(c, x)
    /\ pc' = "upserting"
    /\ rates' = RatesOf(xbody)
    /\ idx' = 0
    /\ resp' = [Response("refresh", 0, "") EXCEPT !.fetch = <<c, x>>]
    /\ lastUpsert' = NoUpsert
    /\ UNCHANGED <<store, nextId, clock, image, live, rendered, sess, race>>

\* one iteration of the loop: _process_single_country_data(db, country, ...)
ProcessEntry(e, m, commitFails) ==
    /\ pc = "upserting"
    /\ idx < MaxCatalog
    /\ clock < MaxClock
    /\ LET rate == ExchangeRate(CurrencyCode(e), rates)
           found == get_country_by_name(store, e.name)
           prev == IF found.id # NoRow.id THEN found.name ELSE NoneStr
       IN  IF GdpRaises(e.population, rate)
           THEN /\ resp' = [Response("refresh", 500, "Internal server error")
                                EXCEPT !.fetch = resp.fetch]
                /\ lastUpsert' = [kind |-> "TypeError", id |-> 0, entry |-> e,
                                  table |-> rates, prev |-> prev]
                /\ pc' = "idle"
                /\ rates' = <<>>
                /\ idx' = 0
                /\ UNCHANGED <<store, nextId, live>>
           ELSE LET r == create_or_update_country(
                             store, nextId, CountryDict(e, rates, m, Now),
                             UtcNow, commitFails)
                IN  /\ store' = r.store
                    /\ nextId' = r.nextId
                    /\ lastUpsert' = [kind |-> r.kind, id |-> r.id, entry |-> e,
                                      table |-> rates, prev |-> prev]
                    /\ IF r.kind = "dberror"
                       THEN /\ resp' = [Response("refresh", 500,
                                                 "Internal server error")
                                            EXCEPT !.fetch = resp.fetch]
                            /\ pc' = "idle"
                            /\ rates' = <<>>
                            /\ idx' = 0
                            /\ live' = live
                       ELSE /\ idx' = idx + 1
                            /\ live' = live \cup {Lower(e.name)}
                            /\ UNCHANGED <<resp, pc, rates>>
    /\ clock' = clock + 1
    /\ UNCHANGED <<image, rendered, sess, race>>

\* the response when the render's exception is left to reach the caller
FinishResponsePropagating(outcome, n) ==
    IF outcome = "ok"
    THEN [Response("refresh", 200, "Countries refreshed successfully")
              EXCEPT !.total = n]
    ELSE Response("refresh", 500, "Internal server error")

\* the response of refresh once the loop is over: the render runs inside
\* try/except Exception, whatever it raises is printed and dropped
FinishResponse(outcome, n) ==
    [Response("refresh", 200, "Countries refreshed successfully")
         EXCEPT !.total = n]

\* after the loop: the render, then the 200 response
RefreshFinish(outcome) ==
    /\ pc = "upserting"
    /\ image' = generate_summary_image(image, outcome)
    /\ resp' = [FinishResponse(outcome, idx) EXCEPT !.fetch = resp.fetch]
    /\ pc' = "idle"
    /\ rates' = <<>>
    /\ idx' = 0
    /\ lastUpsert' = NoUpsert
    /\ rendered' = IF outcome = "ok" THEN "ok" ELSE "failed"
    /\ UNCHANGED <<store, nextId, clock, live, sess, race>>

----------------------------------------------------------------------------
(* The other handlers *)

RequestNames == {Ke, KE, Pe, <<"p","e">>, <<"X","x">>}

\* DELETE /countries/{name}
DeleteCountry(name) ==
    /\ pc = "idle"
    /\ LET d == delete_country(store, name)
       IN  /\ store' = d.store
           /\ live' = IF d.deleted THEN live \ {Lower(name)} ELSE live
           /\ resp' = IF d.deleted
                      THEN Response("delete", 200, "success")
                      ELSE Response("delete", 404, "Country not found")
    /\ lastUpsert' = NoUpsert
    /\ UNCHANGED <<nextId, clock, image, pc, rates, idx, rendered, sess, race>>

\* GET /countries?region=&currency=&sort=
ListCountries(q) ==
    /\ pc = "idle"
    /\ LET got == list_countries(store, q[1], q[2], q[3])
       IN  resp' = [Response("list", got.status, got.error)
                        EXCEPT !.rows = got.rows, !.fetch = q]
    /\ lastUpsert' = NoUpsert
    /\ UNCHANGED <<store, nextId, clock, image, pc, rates, idx,
                   live, rendered, sess, race>>

\* GET /countries/image
GetImage ==
    /\ pc = "idle"
    /\ LET got == get_summary_image(image)
       IN  resp' = [Response("image", got.status, got.error)
                        EXCEPT !.payload = got.payload]
    /\ lastUpsert' = NoUpsert
    /\ UNCHANGED <<store, nextId, clock, image, pc, rates, idx,
                   live, rendered, sess, race>>

\* GET /status
GetStatus ==
    /\ pc = "idle"
    /\ resp' = [Response("status", 200, "") EXCEPT !.total = count_countries(store)]
    /\ lastUpsert' = NoUpsert
    /\ UNCHANGED <<store, nextId, clock, image, pc, rates, idx,
                   live, rendered, sess, race>>

Next ==
    \/ \E p \in FetchPairs : RefreshUnavailable(p[1], p[2])
    \/ \E p \in FetchPairs : RefreshUndecodable(p[1], p[2])
    \/ \E p \in FetchPairs, xbody \in ExchangeBodies :
            RefreshStart(p[1], p[2], xbody)
    \/ \E e \in Entries, m \in Multipliers, commitFails \in BOOLEAN :
            ProcessEntry(e, m, commitFails)
    \/ \E outcome \in RenderOutcomes : RefreshFinish(outcome)
    \/ \E name \in RequestNames : DeleteCountry(name)
    \/ \E q \in ListQueries : ListCountries(q)
    \/ GetImage
    \/ GetStatus

Spec == Init /\ [][Next]_vars

----------------------------------------------------------------------------
(* POST /countries/refresh on a worker thread, entry by entry and, within  *)
(* an entry, lookup and commit as separate steps: the handlers are plain   *)
(* functions, which FastAPI runs on a thread pool, each with the Session   *)
(* of its own that get_db yields.  The fetch stage is over: the worker     *)
(* starts with the two decoded payloads.                                   *)

RECURSIVE SeqsOf(_, _)
\* the lists of n elements of S
SeqsOf(S, n) ==
    IF n = 0 THEN {<<>>}
    ELSE {Append(q, e) : q \in SeqsOf(S, n - 1), e \in S}

\* countries_data of a refresh running alone: up to MaxCatalog + 1 entries,
\* so that an entry can follow a second entry that fails
BatchCatalogs == UNION {SeqsOf(Entries, n) : n \in 0..(MaxCatalog + 1)}

\* countries_data of refreshes that overlap: one or two entries that name
\* the same country
RaceEntries == {e \in Entries : LowerEq(e.name, Ke)}
RaceCatalogs == SeqsOf(RaceEntries, 1) \cup SeqsOf(RaceEntries, 2)

\* the overlap that is over is no longer the last thing that happened
RaceAfterStep ==
    IF race.phase = "over" THEN [race EXCEPT !.phase = "closed"] ELSE race

\* lines 70-72 of refresh_countries
StartRefresh(p, cat, xbody) ==
    /\ sess[p].pc = "idle"
    /\ sess' = [sess EXCEPT ![p] = [IdleSession EXCEPT !.pc = "loop",
                                       !.catalog = cat,
                                       !.rates = RatesOf(xbody)]]
    /\ race' = RaceAfterStep
    /\ UNCHANGED <<store, nextId, clock, image, pc, rates, idx, resp,
                   lastUpsert, live, rendered>>

\* the next entry of the loop, up to the lookup of create_or_update_country
\* (utils.py 95-121, crud.py 24-26); a TypeError ends the request with 500
LookupEntry(p, m) ==
    /\ sess[p].pc = "loop"
    /\ sess[p].idx < Len(sess[p].catalog)
    /\ LET s == sess[p]
           e == s.catalog[s.idx + 1]
           rate == ExchangeRate(CurrencyCode(e), s.rates)
           overlaps == \E q \in Workers \ {p} :
                          /\ sess[q].pc = "commit"
                          /\ LowerEq(sess[q].data.name, e.name)
       IN  IF GdpRaises(e.population, rate)
           THEN /\ sess' = [sess EXCEPT ![p].pc = "failed",
                                        ![p].status = 500,
                                        ![p].log = Append(@, "TypeError")]
                /\ race' = RaceAfterStep
           ELSE /\ sess' = [sess EXCEPT
                               ![p].pc = "commit",
                               ![p].data = CountryDict(e, s.rates, m, Now),
                               ![p].found = get_country_by_name(store, e.name)]
                /\ race' = IF race.phase = "none" /\ overlaps
                           THEN [NoRace EXCEPT !.phase = "open",
                                               !.name = e.name]
                           ELSE RaceAfterStep
    /\ clock' = clock + 1
    /\ UNCHANGED <<store, nextId, image, pc, rates, idx, resp,
                   lastUpsert, live, rendered>>

\* the commit of the entry looked up (crud.py 28-48); an exception ends the
\* request with 500, otherwise the loop goes on
CommitEntry(p, commitFails) ==
    /\ sess[p].pc = "commit"
    /\ LET s == sess[p]
           r == commit_upsert(store, nextId, s.found, s.data, UtcNow,
                              commitFails)
       IN  /\ store' = r.store
           /\ nextId' = r.nextId
           /\ sess' = IF r.kind \in {"dberror", "duplicate"}
                      THEN [sess EXCEPT ![p].pc = "failed",
                                        ![p].status = 500,
                                        ![p].found = NoRow,
                                        ![p].data = NoData,
                                        ![p].log = Append(@, r.kind)]
                      ELSE [sess EXCEPT ![p].pc = "loop",
                                        ![p].idx = @ + 1,
                                        ![p].found = NoRow,
                                        ![p].data = NoData,
                                        ![p].log = Append(@, r.kind)]
           /\ race' = CASE race.phase = "open" ->
                             [race EXCEPT !.phase = "half",
                                          !.kinds = <<r.kind>>]
                         [] race.phase = "half" ->
                             [race EXCEPT !.phase = "over",
                                          !.kinds = Append(@, r.kind),
                                          !.last = s.data]
                         [] OTHER -> RaceAfterStep
    /\ clock' = clock + 1
    /\ UNCHANGED <<image, pc, rates, idx, resp, lastUpsert, live, rendered>>

\* the loop is over: the render, whatever it raises, then 200
FinishRefresh(p, outcome) ==
    /\ sess[p].pc = "loop"
    /\ sess[p].idx = Len(sess[p].catalog)
    /\ image' = generate_summary_image(image, outcome)
    /\ sess' = [sess EXCEPT ![p].pc = "done", ![p].status = 200]
    /\ race' = RaceAfterStep
    /\ UNCHANGED <<store, nextId, clock, pc, rates, idx, resp,
                   lastUpsert, live, rendered>>

\* one refresh, alone
NextBatch ==
    \/ \E cat \in BatchCatalogs, xbody \in ExchangeBodies :
            StartRefresh(1, cat, xbody)
    \/ \E m \in Multipliers : LookupEntry(1, m)
    \/ \E commitFails \in BOOLEAN : CommitEntry(1, commitFails)
    \/ \E outcome \in RenderOutcomes : FinishRefresh(1, outcome)

SpecBatch == Init /\ [][NextBatch]_vars

\* two refreshes, one per worker, their steps interleaved
NextRace ==
    \/ \E p \in Workers, cat \in RaceCatalogs, xbody \in ExchangeBodies :
            StartRefresh(p, cat, xbody)
    \/ \E p \in Workers, m \in Multipliers : LookupEntry(p, m)
    \/ \E p \in Workers, commitFails \in BOOLEAN : CommitEntry(p, commitFails)
    \/ \E p \in Workers, outcome \in RenderOutcomes : FinishRefresh(p, outcome)

SpecRace == Init /\ [][NextRace]_vars

----------------------------------------------------------------------------
(* Properties *)

\* the loop iteration just taken upserted its entry
Upserted == lastUpsert.kind \in {"insert", "update"}

\* the row the last upsert wrote
UpsertedRow == CHOOSE r \in store : r.id = lastUpsert.id

\* the step is one iteration of refresh's loop whose upsert committed
UpsertStep ==
    /\ pc = "upserting"
    /\ clock' = clock + 1
    /\ lastUpsert'.kind \in {"insert", "update"}

\* C1: an upsert whose name equals an existing row's name up to letter case
\* overwrites that row's fields, sets its timestamp to the time of the
\* upsert and leaves the number of rows unchanged; a row is inserted only
\* when no row matches case-insensitively.
C1_UpsertUpdatesCaseInsensitiveMatch ==
    [][UpsertStep =>
        LET e == lastUpsert'.entry
            hit == {r \in store : Lower(r.name) = Lower(e.name)}
        IN  IF hit # {}
            THEN /\ lastUpsert'.kind = "update"
                 /\ Cardinality(store') = Cardinality(store)
                 /\ \E old \in hit, new \in store' :
                      /\ store' \ {new} = store \ {old}
                      /\ new.id = old.id
                      /\ new.name = e.name
                      /\ new.capital = e.capital
                      /\ new.region = e.region
                      /\ new.flag_url = e.flag
                      /\ new.population =
                           (IF e.population = NoneNum THEN 0 ELSE e.population)
                      /\ new.currency_code =
                           (IF e.currencies = <<>> THEN NoneStr
                            ELSE e.currencies[1])
                      /\ new.last_refreshed_at = clock
            ELSE /\ lastUpsert'.kind = "insert"
                 /\ Cardinality(store') = Cardinality(store) + 1
                 /\ store \subseteq store'
    ]_vars

\* a row named "Ke" has just been updated by an entry named "KE"
C1_Witness ==
    /\ lastUpsert.kind = "update"
    /\ lastUpsert.prev = Ke
    /\ lastUpsert.entry.name = KE
    /\ \E r \in store : r.id = lastUpsert.id /\ r.name = KE
    /\ Cardinality(store) = 1

\* C2: count() is the number of distinct case-folded names upserted and not
\* removed by a delete since, which is the number of distinct case-folded
\* names present; GET /status reports it.
C2_CountIsLiveNames ==
    /\ count_countries(store) = Cardinality(live)
    /\ live = {Lower(r.name) : r \in store}
    /\ (resp.op = "status" => resp.total = Cardinality(live))

\* two names were upserted and one of them was deleted
C2_Witness ==
    /\ resp.op = "delete"
    /\ resp.status = 200
    /\ nextId = 3
    /\ count_countries(store) = 1

\* the first currency code of the entry the loop took last, None if it
\* lists no currency
FirstCode ==
    IF lastUpsert.entry.currencies = <<>> THEN NoneStr
    ELSE lastUpsert.entry.currencies[1]

\* a fetch that failed with a network error or a 4xx/5xx status
FetchFailed(f) == \E i \in DOMAIN f : f[i] \in {"neterr", "4xx", "5xx"}

\* a fetch that failed with a network error or any status outside 2xx
FetchNot2xx(f) == \E i \in DOMAIN f : f[i] # "2xx"

\* C3 as claimed: a refresh one of whose fetches fails with a network error
\* or a non-2xx status answers 503 "External data source unavailable".
C3_Original ==
    (resp.op = "refresh" /\ resp.status # 0 /\ FetchNot2xx(resp.fetch))
        => /\ resp.status = 503
           /\ resp.msg = "External data source unavailable"

\* C3 amended: a refresh one of whose fetches fails with a network error or
\* a 4xx/5xx status answers 503 "External data source unavailable", upserts
\* nothing and leaves every row as it was, whatever the other source did.
C3_FetchFailureAborts ==
    [][(pc = "idle" /\ resp'.op = "refresh" /\ FetchFailed(resp'.fetch))
        => /\ resp'.status = 503
           /\ resp'.msg = "External data source unavailable"
           /\ store' = store
           /\ nextId' = nextId
           /\ pc' = "idle"
           /\ lastUpsert'.kind = "none"
    ]_vars

\* the rates source answered 5xx while the catalog answered 2xx, with rows
\* in the table
C3_Witness ==
    /\ resp.op = "refresh"
    /\ resp.status = 503
    /\ resp.fetch = <<"2xx", "5xx">>
    /\ store # {}

\* C4 as claimed: every entry that omits population and reaches the upsert
\* is stored with population 0, whether or not its currency has a rate.
C4_OmittedPopulationStoredAsZero ==
    (lastUpsert.kind \in {"insert", "update", "TypeError"}
        /\ lastUpsert.entry.population = NoneNum)
        => /\ Upserted
           /\ UpsertedRow.population = 0

\* C5: an entry whose first currency code is not in the rate table, or
\* which lists no currency, is never divided for (no TypeError either) and
\* is stored with estimated_gdp 0 and exchange_rate NULL.
C5_NoRateGivesZeroGdp ==
    (lastUpsert.kind # "none" /\ FirstCode \notin DOMAIN lastUpsert.table)
        => /\ lastUpsert.kind # "TypeError"
           /\ Upserted =>
                /\ UpsertedRow.estimated_gdp = 0
                /\ UpsertedRow.exchange_rate = NoneNum

\* an entry whose first code is absent from a non-empty rate table (its
\* second code is there) has been inserted
C5_Witness ==
    /\ lastUpsert.kind = "insert"
    /\ lastUpsert.entry.currencies = <<Xxx, Usd>>
    /\ lastUpsert.table = RateTable
    /\ UpsertedRow.estimated_gdp = 0

\* C6 as claimed: an entry whose first currency code is in the rate table
\* is stored with estimated_gdp = population * m / rate for some m in
\* [1000, 2000], the rate being the table's value, 0 included.
C6_Original ==
    (Upserted /\ FirstCode \in DOMAIN lastUpsert.table)
        => LET rate == lastUpsert.table[FirstCode]
           IN  /\ rate # 0
               /\ \E m \in MultiplierLo..MultiplierHi :
                    UpsertedRow.estimated_gdp * rate
                        = lastUpsert.entry.population * m

\* C6 amended: such an entry is stored with estimated_gdp = population * m
\* / rate for some m in [1000, 2000] when the table's value is not 0; when
\* it is 0 nothing is divided, estimated_gdp is 0 and exchange_rate is 0.
C6_GdpFromRate ==
    (Upserted /\ FirstCode \in DOMAIN lastUpsert.table)
        => LET rate == lastUpsert.table[FirstCode]
           IN  /\ UpsertedRow.exchange_rate = rate
               /\ IF rate # 0
                  THEN \E m \in MultiplierLo..MultiplierHi :
                         UpsertedRow.estimated_gdp * rate
                             = lastUpsert.entry.population * m
                  ELSE UpsertedRow.estimated_gdp = 0

\* an entry of population 2 whose currency has rate 2 has been stored
C6_Witness ==
    /\ Upserted
    /\ FirstCode = Kes
    /\ lastUpsert.table = RateTable
    /\ UpsertedRow.population = 2
    /\ UpsertedRow.estimated_gdp = MultiplierHi

\* what GET /countries/image answers in the current state
ImageNow == get_summary_image(image)

ImageNotFound ==
    /\ ImageNow.status = 404
    /\ ImageNow.error = "Summary image not found"

ImageServed ==
    /\ ImageNow.status = 200
    /\ ImageNow.payload # ""

\* C7 as claimed: GET /countries/image answers 404 while no refresh has
\* returned 200, and 200 with a non-empty payload once one has.
C7_Original ==
    /\ rendered = "never" => ImageNotFound
    /\ rendered # "never" => ImageServed

\* C7 amended: GET /countries/image answers 404 while no refresh has
\* returned 200, and 200 with a non-empty payload after a refresh that
\* returned 200 and whose rendering succeeded, until the next refresh.
C7_ImageAfterRenderedRefresh ==
    /\ rendered = "never" => ImageNotFound
    /\ rendered = "ok" => ImageServed
    /\ (resp.op = "image" /\ rendered = "never") => resp.status = 404
    /\ (resp.op = "image" /\ rendered = "ok")
            => resp.status = 200 /\ resp.payload # ""

\* the image has been fetched after a refresh that rendered it
C7_Witness ==
    /\ rendered = "ok"
    /\ resp.op = "image"
    /\ resp.status = 200
    /\ resp.payload = "png"

\* the step ends refresh's loop with a render that raised
FailedRenderStep ==
    /\ pc = "upserting"
    /\ pc' = "idle"
    /\ lastUpsert'.kind = "none"
    /\ rendered' = "failed"

\* C8: when both fetches and every upsert succeeded, a render that raises
\* changes nothing of the outcome: refresh answers 200 "Countries refreshed
\* successfully" and the rows upserted stay as committed.
C8_RenderFailureSwallowed ==
    [][FailedRenderStep =>
        /\ resp'.op = "refresh"
        /\ resp'.status = 200
        /\ resp'.msg = "Countries refreshed successfully"
        /\ resp'.total = idx
        /\ store' = store
        /\ (Upserted => \E r \in store' : r.id = lastUpsert.id)
    ]_vars

\* a refresh that upserted an entry has returned 200 though its render raised
C8_Witness ==
    /\ rendered = "failed"
    /\ resp.op = "refresh"
    /\ resp.status = 200
    /\ resp.total >= 1
    /\ store # {}
    /\ image # "png"

\* the step handles DELETE /countries/{name}
DeleteStep == pc = "idle" /\ resp'.op = "delete"

\* C9: no step of a refresh, failing or not, removes a record: every name
\* in the table stays in it up to letter case, under the same id; only the
\* delete handler removes records.
C9_RefreshNeverRemoves ==
    [][~DeleteStep =>
        \A r \in store : \E k \in store' :
            /\ k.id = r.id
            /\ Lower(k.name) = Lower(r.name)
    ]_vars

\* a refresh of one entry has returned 200 and a row it did not carry is
\* still in the table
C9_Witness ==
    /\ resp.op = "refresh"
    /\ resp.status = 200
    /\ resp.total = 1
    /\ Cardinality(store) = 2

\* the rows are in the order ORDER BY col gives
Ordered(rows, col, order) ==
    \A i, j \in DOMAIN rows :
        i < j => IF order = "desc"
                 THEN SortKey(rows[i], col) >= SortKey(rows[j], col)
                 ELSE SortKey(rows[i], col) <= SortKey(rows[j], col)

\* C10 as claimed: a sort parameter ending in _asc or _desc never fails; it
\* orders the result by the field its prefix names, or is ignored when the
\* prefix names no field of the record; a sort parameter with neither
\* suffix is answered 400 "Validation failed".
C10_SortNeverFails ==
    (resp.op = "list" /\ TruthyStr(resp.fetch[3]))
        => LET sort == resp.fetch[3]
               desc == EndsWith(sort, SufDesc)
               asc == EndsWith(sort, SufAsc)
               col == IF desc THEN DropLast(sort, 5) ELSE DropLast(sort, 4)
               plain == list_countries(store, resp.fetch[1], resp.fetch[2],
                                       NoneStr)
           IN  IF desc \/ asc
               THEN /\ resp.status = 200
                    /\ IF col \in ColumnAttrs
                       THEN Ordered(resp.rows, col,
                                    IF desc THEN "desc" ELSE "asc")
                       ELSE resp.rows = plain.rows
               ELSE /\ resp.status = 400
                    /\ resp.msg = "Validation failed"

\* the row holds what the entry says: population defaults to 0 and the
\* currency is the first one listed
RowOfEntry(r, e) ==
    /\ r.name = e.name
    /\ r.capital = e.capital
    /\ r.region = e.region
    /\ r.flag_url = e.flag
    /\ r.population = (IF e.population = NoneNum THEN 0 ELSE e.population)
    /\ r.currency_code =
         (IF e.currencies = <<>> THEN NoneStr ELSE e.currencies[1])

\* among the first n entries of cat, the last one of the name of entry j
LastOfName(cat, n, j) ==
    CHOOSE i \in 1..n :
        /\ LowerEq(cat[i].name, cat[j].name)
        /\ \A h \in (i + 1)..n : ~LowerEq(cat[h].name, cat[j].name)

RowOfData(r, data) ==
    /\ r.name = data.name
    /\ r.capital = data.capital
    /\ r.region = data.region
    /\ r.population = data.population
    /\ r.currency_code = data.currency_code
    /\ r.exchange_rate = data.exchange_rate
    /\ r.estimated_gdp = data.estimated_gdp
    /\ r.flag_url = data.flag_url

\* C12 as claimed: when two refreshes have both looked a name up before
\* either committed its upsert of it, and no commit failed for a reason of
\* the database itself, then once both are through both upserts have
\* completed and the table has exactly one record of the name, with the
\* values of the upsert that committed last.
C12_LastWriterWins ==
    (race.phase = "over" /\ \A i \in 1..2 : race.kinds[i] # "dberror")
        => /\ \A i \in 1..2 : race.kinds[i] \in {"insert", "update"}
           /\ Cardinality(Matching(store, race.name)) = 1
           /\ \A r \in Matching(store, race.name) : RowOfData(r, race.last)

====
